---- MODULE Spec2Model ----
(***************************************************************************)
(* Model of .template/init.py: the template initializer that substitutes   *)
(* placeholder tokens in file contents and in file and directory names,    *)
(* removes itself and optionally creates an initial git repository.        *)
(*                                                                         *)
(* Strings are sequences of one-character strings, so that str.replace,    *)
(* str.split, str.strip and the "in" tests are computed character by       *)
(* character.  A path is the sequence of its components below the working  *)
(* directory; the working directory itself is the empty path.              *)
(***************************************************************************)
EXTENDS Integers, Sequences, FiniteSets, TLC

VARIABLES
    pc,         \* position of main()
    argv,       \* the command line: one value or NoneVal per flag
    env,        \* what the environment answers: git config, OS user, year
    args,       \* Args returned by parse_args, NoneVal before
    repl,       \* the replacements dict, in insertion order
    fs,         \* the tree under the working directory: path -> entry
    fs0,        \* the tree when the run started
    todo,       \* paths the rglob loop of step 1 has still to yield
    stack,      \* os.walk's stack: paths to scan and tuples to yield
    cur,        \* the (root, dirs, files) tuple being processed
    out,        \* what has been printed
    done,       \* kinds of filesystem mutation performed so far
    orig,       \* text rewriting: the text as first read
    buf,        \* text rewriting: the local variable text
    k,          \* text rewriting: index of the next key of the loop
    pass,       \* text rewriting: number of the rewrite in progress
    first       \* text rewriting: what the first rewrite wrote

vars == <<pc, argv, env, args, repl, fs, fs0, todo, stack, cur, out, done,
          orig, buf, k, pass, first>>

mainVars == <<pc, fs, fs0, todo, stack, cur, out, done>>
textVars == <<orig, buf, k, pass, first>>

----------------------------------------------------------------------------
(* Strings *)

NoneVal == <<"<None>">>

package_name == <<"p","a","c","k","a","g","e","_","n","a","m","e">>
import_name == <<"i","m","p","o","r","t","_","n","a","m","e">>
package_title == <<"p","a","c","k","a","g","e","_","t","i","t","l","e">>
author == <<"a","u","t","h","o","r">>
email == <<"e","m","a","i","l">>
description == <<"d","e","s","c","r","i","p","t","i","o","n">>
github_username == <<"g","i","t","h","u","b","_","u","s","e","r","n","a","m","e">>
year == <<"y","e","a","r">>

\* r"${identifier}"
Placeholder(w) == <<"$","{">> \o w \o <<"}">>

\* The keys of the replacements dict, in the order the dict literal gives them.
Keys == << Placeholder(package_name), Placeholder(import_name),
           Placeholder(package_title), Placeholder(author),
           Placeholder(email), Placeholder(description),
           Placeholder(github_username), Placeholder(year) >>

DefaultAuthor == <<"Y","o","u","r"," ","N","a","m","e">>
DefaultEmail == <<"y","o","u","r",".","e","m","a","i","l","@",
                  "e","x","a","m","p","l","e",".","c","o","m">>
DefaultDescription == <<"A"," ","P","y","t","h","o","n"," ",
                        "p","a","c","k","a","g","e">>

\* sub occurs in s at index i
StartsAt(s, sub, i) ==
    /\ i + Len(sub) - 1 <= Len(s)
    /\ \A j \in 1..Len(sub) : s[i + j - 1] = sub[j]

\* sub in s
Contains(s, sub) == \E i \in 1..(Len(s) + 1) : StartsAt(s, sub, i)

\* some placeholder token occurs in s
HasToken(s) == \E j \in 1..Len(Keys) : Contains(s, Keys[j])

RECURSIVE ReplaceFirstFrom(_, _, _, _)
ReplaceFirstFrom(s, old, new, i) ==
    IF i > Len(s) THEN <<>>
    ELSE IF StartsAt(s, old, i)
         THEN new \o SubSeq(s, i + Len(old), Len(s))
         ELSE <<s[i]>> \o ReplaceFirstFrom(s, old, new, i + 1)

\* s.replace(old, new, 1): a replace that stops after the first occurrence
ReplaceFirstOnly(s, old, new) == ReplaceFirstFrom(s, old, new, 1)

RECURSIVE ReplaceFrom(_, _, _, _)
ReplaceFrom(s, old, new, i) ==
    IF i > Len(s) THEN <<>>
    ELSE IF StartsAt(s, old, i)
         THEN new \o ReplaceFrom(s, old, new, i + Len(old))
         ELSE <<s[i]>> \o ReplaceFrom(s, old, new, i + 1)

\* s.replace(old, new) for a non-empty old: every non-overlapping occurrence,
\* found left to right, is replaced; the inserted text is not scanned again.
Replace(s, old, new) == ReplaceFrom(s, old, new, 1)

RECURSIVE ReplaceAllFrom(_, _, _)
ReplaceAllFrom(s, r, i) ==
    IF i > Len(r) THEN s
    ELSE ReplaceAllFrom(Replace(s, r[i][1], r[i][2]), r, i + 1)

\* for key, value in replacements.items(): text = text.replace(key, value)
ReplaceAll(s, r) == ReplaceAllFrom(s, r, 1)

Whitespace == {" ", "\n", "\t"}

RECURSIVE LStrip(_)
LStrip(s) == IF s # <<>> /\ s[1] \in Whitespace THEN LStrip(Tail(s)) ELSE s

RECURSIVE RStrip(_)
RStrip(s) ==
    IF s # <<>> /\ s[Len(s)] \in Whitespace
    THEN RStrip(SubSeq(s, 1, Len(s) - 1)) ELSE s

\* s.strip()
Strip(s) == LStrip(RStrip(s))

RECURSIVE UpTo(_, _)
UpTo(s, c) ==
    IF s = <<>> \/ s[1] = c THEN <<>> ELSE <<s[1]>> \o UpTo(Tail(s), c)

\* s.split(c)[0]
SplitFirst(s, c) == UpTo(s, c)

Digit(d) == <<"0","1","2","3","4","5","6","7","8","9">>[d + 1]

RECURSIVE Str(_)
\* str(n) for n >= 0
Str(n) == IF n < 10 THEN <<Digit(n)>> ELSE Str(n \div 10) \o <<Digit(n % 10)>>

----------------------------------------------------------------------------
(* Arguments and the replacements dict *)

\* get_git_config(key, default): env.git[key] is the outcome of
\* `git config --get key`: ok = FALSE when the command fails or git is missing.
get_git_config(e, key, default) ==
    IF e.git[key].ok
    THEN (IF Strip(e.git[key].out) # <<>> THEN Strip(e.git[key].out) ELSE default)
    ELSE default

\* argparse: the value given for a flag, else the flag's default
Flag(a, name, default) == IF a[name] = NoneVal THEN default ELSE a[name]

\* --name is required: argparse exits with a usage error without it
UsageError(a) == a.name = NoneVal

ArgAuthor(a, e) == Flag(a, "author", get_git_config(e, "name", DefaultAuthor))
ArgEmail(a, e) == Flag(a, "email", get_git_config(e, "email", DefaultEmail))

\* the GitHub user name: given, else the email's local part, else the OS user
ArgGithub(a, e) ==
    IF a.github # NoneVal THEN a.github
    ELSE IF Contains(ArgEmail(a, e), <<"@">>)
         THEN SplitFirst(ArgEmail(a, e), "@")
         ELSE e.user

parse_args(a, e) ==
    [ name        |-> a.name,
      author      |-> ArgAuthor(a, e),
      email       |-> ArgEmail(a, e),
      description |-> Flag(a, "description", DefaultDescription),
      github      |-> ArgGithub(a, e) ]

\* the replacements dict of main(), as the sequence of its items
Replacements(g, e) ==
    LET imp == Replace(g.name, <<"-">>, <<"_">>) IN
    << <<Keys[1], g.name>>,
       <<Keys[2], imp>>,
       <<Keys[3], imp>>,
       <<Keys[4], g.author>>,
       <<Keys[5], g.email>>,
       <<Keys[6], g.description>>,
       <<Keys[7], g.github>>,
       <<Keys[8], Str(e.year)>> >>

----------------------------------------------------------------------------
(* Inputs *)

\* values given on the command line
V_a_b == <<"a","-","b">>
V_x == <<"x">>
V_A == <<"A">>
V_D == <<"D">>
V_G == <<"G">>
V_U == <<"U">>
V_mail == <<"E","@","h">>
V_nomail == <<"E","h">>

Years == {2026}

Argv(n, a, m, d, g) ==
    [name |-> n, author |-> a, email |-> m, description |-> d, github |-> g]

GitOut(okN, outN, okM, outM) ==
    [name |-> [ok |-> okN, out |-> outN], email |-> [ok |-> okM, out |-> outM]]

Env(git, y) == [git |-> git, user |-> V_U, year |-> y]

GitUnset == GitOut(FALSE, <<>>, FALSE, <<>>)
GitSet == GitOut(TRUE, <<"G"," ","H","\n">>, TRUE, <<"\n">>)

----------------------------------------------------------------------------
(* Rewriting one text: the body of replace_in_file, one loop iteration per *)
(* step, run a second time on what the first run wrote.                   *)

MaxPieces == 2

Pieces == { Placeholder(author), Placeholder(package_name),
            <<"$","{">>, <<"}">>, author }

RECURSIVE TextsOf(_)
TextsOf(n) ==
    IF n = 0 THEN {<<>>}
    ELSE TextsOf(n - 1) \cup
         {t \o p : t \in TextsOf(n - 1), p \in Pieces}

Texts == TextsOf(MaxPieces)

TextNames == {V_a_b, Placeholder(author), author, <<>>}
TextAuthors == {NoneVal, V_A, Placeholder(package_name), package_name}
TextOthers == { <<V_mail, NoneVal, NoneVal>>,
                <<V_nomail, V_D, NoneVal>>,
                <<NoneVal, NoneVal, V_G>> }

TextArgv == {Argv(n, a, o[1], o[2], o[3]) :
                n \in TextNames, a \in TextAuthors, o \in TextOthers}

TextEnvs == {Env(GitSet, y) : y \in Years}

EmptyFs == [p \in {} |-> NoneVal]

TextInit ==
    /\ argv \in TextArgv
    /\ env \in TextEnvs
    /\ args = parse_args(argv, env)
    /\ repl = Replacements(args, env)
    /\ orig \in Texts
    /\ buf = orig
    /\ k = 1
    /\ pass = "first"
    /\ first = NoneVal
    /\ pc = "text"
    /\ fs = EmptyFs
    /\ fs0 = EmptyFs
    /\ todo = {}
    /\ stack = <<>>
    /\ cur = NoneVal
    /\ out = {}
    /\ done = {}

\* text = text.replace(key, value), for the next item of the dict
ReplaceKey ==
    /\ pc = "text"
    /\ pass \in {"first", "second"}
    /\ k <= Len(repl)
    /\ buf' = Replace(buf, repl[k][1], repl[k][2])
    /\ k' = k + 1
    /\ UNCHANGED <<argv, env, args, repl, orig, pass, first>>
    /\ UNCHANGED mainVars

\* path.write_text(text): the loop is over; a second run reads what was written
WriteText ==
    /\ pc = "text"
    /\ pass \in {"first", "second"}
    /\ k > Len(repl)
    /\ first' = IF pass = "first" THEN buf ELSE first
    /\ pass' = IF pass = "first" THEN "second" ELSE "done"
    /\ k' = 1
    /\ UNCHANGED <<argv, env, args, repl, orig, buf>>
    /\ UNCHANGED mainVars

TextNext == ReplaceKey \/ WriteText

SpecText == TextInit /\ [][TextNext]_vars

----------------------------------------------------------------------------
(* The tree under the working directory *)

Dir == [type |-> "dir", data |-> <<>>, mode |-> "dir"]
\* mode: "text" decodes as UTF-8, "binary" does not, "denied" cannot be opened
File(data, mode) == [type |-> "file", data |-> data, mode |-> mode]

N_git == <<".","g","i","t">>
N_github == <<".","g","i","t","h","u","b">>
N_template == <<".","t","e","m","p","l","a","t","e">>
N_init_py == <<"i","n","i","t",".","p","y">>
N_config == <<"c","o","n","f","i","g">>
N_index == <<"i","n","d","e","x">>

\* Path(__file__).resolve(), with the working directory being PROJECT_ROOT
script_path == <<N_template, N_init_py>>

IsPrefix(p, q) == Len(p) <= Len(q) /\ SubSeq(q, 1, Len(p)) = p
Parent(p) == SubSeq(p, 1, Len(p) - 1)
Base(p) == p[Len(p)]
Exists(f, p) == p \in DOMAIN f
IsDir(f, p) == Exists(f, p) /\ f[p].type = "dir"
IsFile(f, p) == Exists(f, p) /\ f[p].type = "file"
ChildNames(f, p, type) ==
    {Base(q) : q \in {r \in DOMAIN f : Len(r) = Len(p) + 1 /\ IsPrefix(p, r)
                                       /\ f[r].type = type}}

\* os.rename(src, dst): src and all below it moves to dst; a file at dst is
\* replaced
OsRename(f, src, dst) ==
    LET stay  == {q \in DOMAIN f : ~IsPrefix(src, q)}
        moved == {dst \o SubSeq(q, Len(src) + 1, Len(q)) :
                     q \in {r \in DOMAIN f : IsPrefix(src, r)}}
    IN  [q \in stay \cup moved |->
            IF q \in moved
            THEN f[src \o SubSeq(q, Len(dst) + 1, Len(q))]
            ELSE f[q]]

\* shutil.move(src, dst): into dst when dst is a directory, else onto dst
MoveTarget(f, src, dst) == IF IsDir(f, dst) THEN dst \o <<Base(src)>> ELSE dst

\* shutil.move raises: the source is gone, or dst is a directory that
\* already holds an entry of the source's name
MoveRaises(f, src, dst) ==
    \/ ~Exists(f, src)
    \/ (IsDir(f, dst) /\ Exists(f, dst \o <<Base(src)>>))

Remove(f, p) == [q \in DOMAIN f \ {p} |-> f[q]]

----------------------------------------------------------------------------
(* Initial trees *)

MaxDepth == 2

Marker == <<"$","{">>

\* the nested directories outer-${x}/inner-${x}/.../file-${x}
LevelName(i) == (IF i = 1 THEN <<"o">> ELSE <<"i">>) \o Placeholder(import_name)
ChainPath(n) == [i \in 1..n |-> LevelName(i)]
ChainFileName == <<"f">> \o Placeholder(import_name)
ChainFile(n) == ChainPath(n) \o <<ChainFileName>>
ChainText == Placeholder(package_name) \o <<" ">> \o Placeholder(author)
                \o <<" ">> \o Placeholder(year)

Chain(n, mode) ==
    [p \in {ChainPath(i) : i \in 1..n} \cup {ChainFile(n)} |->
        IF p = ChainFile(n) THEN File(ChainText, mode) ELSE Dir]

TemplateTree ==
    [p \in {<<>>, <<N_template>>, script_path} |->
        IF p = script_path THEN File(Placeholder(year), "text") ELSE Dir]

\* a version-control directory and a file in it
Vcs(v) ==
    IF v = <<>> THEN EmptyFs
    ELSE [p \in {<<v>>, <<v, N_config>>} |->
            IF p = <<v>> THEN Dir ELSE File(Placeholder(author), "text")]

\* an entry already carrying the name the outer directory gets for --name x
TakenDirName == <<"o">> \o V_x
TakenDir(c) ==
    IF c = "none" THEN EmptyFs
    ELSE [p \in {<<TakenDirName>>} |->
            IF c = "dir" THEN Dir ELSE File(<<"t">>, "text")]

\* a file in the working directory with a placeholder name, and an entry
\* already carrying the name it gets for --author A
RootFileName == <<"g">> \o Placeholder(author)
TakenFileName == <<"g">> \o V_A
RootFile(c) ==
    [p \in {<<RootFileName>>} \cup (IF c = "none" THEN {} ELSE {<<TakenFileName>>})
        |-> IF p = <<RootFileName>> THEN File(Placeholder(email), "text")
            ELSE IF c = "dir" THEN Dir ELSE File(<<"t">>, "text")]

Tree(v, n, mode, cd, cf) ==
    TemplateTree @@ Vcs(v) @@ Chain(n, mode) @@ TakenDir(cd) @@ RootFile(cf)

Trees == {Tree(v, n, mode, cd, cf) :
            v \in {<<>>, N_git, N_github},
            n \in 1..MaxDepth,
            mode \in {"text", "binary", "denied"},
            cd \in {"none", "dir", "file"},
            cf \in {"none", "dir", "file"}}

MainArgv == {Argv(n, a, NoneVal, NoneVal, NoneVal) :
                n \in {NoneVal, V_a_b, V_x}, a \in {NoneVal, V_A}}

MainEnvs == {Env(GitUnset, y) : y \in Years}

NoArgs == [name |-> NoneVal, author |-> NoneVal, email |-> NoneVal,
           description |-> NoneVal, github |-> NoneVal]

Idle == [root |-> <<>>, kids |-> {}, alldirs |-> {}, dirs |-> {}, files |-> {}]

Init ==
    /\ argv \in MainArgv
    /\ env \in MainEnvs
    /\ args = NoArgs
    /\ repl = <<>>
    /\ fs \in Trees
    /\ fs0 = fs
    /\ pc = "parse"
    /\ todo = {}
    /\ stack = <<>>
    /\ cur = Idle
    /\ out = {}
    /\ done = {}
    /\ orig = <<>>
    /\ buf = <<>>
    /\ k = 1
    /\ pass = "none"
    /\ first = NoneVal

----------------------------------------------------------------------------
(* main() *)

\* main() like the order of steps 3 and 4 exchanged
AfterStageGitFirst(stage) ==
    CASE stage = "parse"   -> "confirm"
      [] stage = "confirm" -> "step1"
      [] stage = "step1"   -> "step2"
      [] stage = "step2"   -> "step4"
      [] stage = "step4"   -> "step3"
      [] stage = "step3"   -> "complete"

\* the order of main()'s stages
AfterStage(stage) ==
    CASE stage = "parse"   -> "confirm"
      [] stage = "confirm" -> "step1"
      [] stage = "step1"   -> "step2"
      [] stage = "step2"   -> "step3"
      [] stage = "step3"   -> "step4"
      [] stage = "step4"   -> "complete"

Parts(p) == {p[i] : i \in 1..Len(p)}

\* a filter that forgets the script's own file
EligibleWithScript(f, p) ==
    /\ IsFile(f, p)
    /\ N_git \notin Parts(p)
    /\ N_github \notin Parts(p)

\* the condition under which step 1 calls replace_in_file
Eligible(f, p) ==
    /\ IsFile(f, p)
    /\ N_git \notin Parts(p)
    /\ N_github \notin Parts(p)
    /\ p # script_path

\* args = parse_args() and the replacements dict
ParseArgs ==
    /\ pc = "parse"
    /\ IF UsageError(argv)
       THEN /\ pc' = "exit_usage"
            /\ out' = out \cup {<<"usage">>}
            /\ UNCHANGED <<args, repl>>
       ELSE /\ args' = parse_args(argv, env)
            /\ repl' = Replacements(args', env)
            /\ pc' = AfterStage("parse")
            /\ UNCHANGED out
    /\ UNCHANGED <<argv, env, fs, fs0, todo, stack, cur, done>>
    /\ UNCHANGED textVars

\* a prompt that goes on whatever the user does
ConfirmedAlways(key) == TRUE

\* input() returns on Enter; Ctrl+C raises KeyboardInterrupt out of main()
Confirmed(key) == key = "enter"

\* confirm_replacements(replacements)
Confirm ==
    /\ pc = "confirm"
    /\ \E key \in {"enter", "interrupt"} :
          /\ pc' = IF Confirmed(key) THEN AfterStage("confirm") ELSE "interrupted"
          /\ done' = IF key = "interrupt" THEN done \cup {<<"interrupt">>} ELSE done
    /\ out' = out \cup {<<"Initializing template with:">>}
    /\ UNCHANGED <<argv, env, args, repl, fs, fs0, todo, stack, cur>>
    /\ UNCHANGED textVars

\* Step 1 begins: the files Path(".").rglob("*") yields that pass the filter
StartRewrite ==
    /\ pc = "step1"
    /\ pc' = "rewriting"
    /\ todo' = {p \in DOMAIN fs : Eligible(fs, p)}
    /\ out' = out \cup {<<"Step 1">>}
    /\ UNCHANGED <<argv, env, args, repl, fs, fs0, stack, cur, done>>
    /\ UNCHANGED textVars

\* a replace_in_file that lets the decoding error out
DecodeErrorUncaught == FALSE

\* replace_in_file catches UnicodeDecodeError
DecodeErrorCaught == TRUE

\* replace_in_file(path, replacements), for any file the loop has yet to give
ReplaceInFile ==
    /\ pc = "rewriting"
    /\ \E p \in todo :
          /\ todo' = todo \ {p}
          /\ CASE fs[p].mode = "text" ->
                    /\ fs' = [fs EXCEPT ![p].data = ReplaceAll(@, repl)]
                    /\ out' = out \cup {<<"Updated", p>>}
                    /\ done' = done \cup {<<"write", p>>}
                    /\ pc' = pc
               [] fs[p].mode = "binary" ->
                    /\ out' = IF DecodeErrorCaught
                              THEN out \cup {<<"Skipping binary file", p>>}
                              ELSE out
                    /\ pc' = IF DecodeErrorCaught THEN pc ELSE "crashed"
                    /\ UNCHANGED <<fs, done>>
               [] fs[p].mode = "denied" ->
                    /\ out' = out \cup {<<"Error processing", p>>}
                    /\ UNCHANGED <<fs, done, pc>>
    /\ UNCHANGED <<argv, env, args, repl, fs0, stack, cur>>
    /\ UNCHANGED textVars

\* the loop of step 1 is over
EndRewrite ==
    /\ pc = "rewriting"
    /\ todo = {}
    /\ pc' = AfterStage("step1")
    /\ UNCHANGED <<argv, env, args, repl, fs, fs0, todo, stack, cur, out, done>>
    /\ UNCHANGED textVars

HasMarker(name) == Contains(name, Marker)

\* os.walk scans a directory: its sub-directories and its other entries, as
\* they are now.  kids are the sub-directories not yet walked; dirs and
\* files are the names the loops of rename_files_and_dirs act on, those
\* with "${" in them.
Scan(f, top) ==
    [ root    |-> top,
      kids    |-> ChildNames(f, top, "dir"),
      alldirs |-> ChildNames(f, top, "dir"),
      dirs    |-> {d \in ChildNames(f, top, "dir") : HasMarker(d)},
      files   |-> {n \in ChildNames(f, top, "file") : HasMarker(n)} ]

\* Step 2 begins: os.walk(Path(".").resolve(), topdown=False)
StartRename ==
    /\ pc = "step2"
    /\ pc' = "renaming"
    /\ stack' = <<Scan(fs, <<>>)>>
    /\ cur' = Idle
    /\ out' = out \cup {<<"Step 2">>}
    /\ UNCHANGED <<argv, env, args, repl, fs, fs0, todo, done>>
    /\ UNCHANGED textVars

CurDone == cur.files = {} /\ cur.dirs = {}

\* a walk that yields a directory before its sub-directories (topdown=True)
WalkReadyTopDown(frame) == TRUE

\* topdown=False: a directory is yielded once all its sub-directories were
WalkReady(frame) == frame.kids = {}

\* os.walk goes into a sub-directory, in whatever order scandir gave them; a
\* directory that cannot be scanned is passed over
WalkDescend ==
    /\ pc = "renaming"
    /\ CurDone
    /\ stack # <<>>
    /\ ~WalkReady(Head(stack))
    /\ \E c \in Head(stack).kids :
          LET top   == Head(stack)
              child == top.root \o <<c>>
          IN  stack' = (IF IsDir(fs, child) THEN <<Scan(fs, child)>> ELSE <<>>)
                          \o <<[top EXCEPT !.kids = @ \ {c}]>> \o Tail(stack)
    /\ UNCHANGED <<argv, env, args, repl, fs, fs0, todo, cur, out, done, pc>>
    /\ UNCHANGED textVars

\* os.walk yields (root, dirs, files)
WalkYield ==
    /\ pc = "renaming"
    /\ CurDone
    /\ stack # <<>>
    /\ WalkReady(Head(stack))
    /\ cur' = Head(stack)
    /\ stack' = Tail(stack)
    /\ done' = done \cup {<<"visit", Head(stack).root>>}
    /\ UNCHANGED <<argv, env, args, repl, fs, fs0, todo, out, pc>>
    /\ UNCHANGED textVars

\* the renamed name: every replacement applied to the name
NewName(name) == ReplaceAll(name, repl)

\* shutil.move(src, dst), or the exception it raises out of main()
Move(src, dst) ==
    IF MoveRaises(fs, src, dst)
    THEN /\ pc' = "crashed"
         /\ done' = done \cup {<<IF Exists(fs, src) THEN "raise" ELSE "missing",
                                  src, dst>>}
         /\ UNCHANGED fs
    ELSE /\ fs' = OsRename(fs, src, MoveTarget(fs, src, dst))
         /\ done' = done \cup {<<"move", src, MoveTarget(fs, src, dst)>>}
         /\ UNCHANGED pc

\* for file in files: one iteration
RenameFile ==
    /\ pc = "renaming"
    /\ \E file \in cur.files :
          LET file_path == cur.root \o <<file>>
              new_path  == cur.root \o <<NewName(file)>>
          IN  /\ cur' = [cur EXCEPT !.files = @ \ {file}]
              /\ IF file_path # new_path
                 THEN /\ out' = out \cup {<<"Renaming", file_path, new_path>>}
                      /\ Move(file_path, new_path)
                 ELSE UNCHANGED <<out, fs, done, pc>>
    /\ UNCHANGED <<argv, env, args, repl, fs0, todo, stack>>
    /\ UNCHANGED textVars

\* a directory loop that moves without looking at the destination
DirMoveUnguarded(f, new_path) == TRUE

\* if not os.path.exists(new_path)
DirMoveAllowed(f, new_path) == ~Exists(f, new_path)

\* the loop over dirs comes after the loop over files
FilesLoopOver(c) == c.files = {}

\* for dir_name in dirs: one iteration
RenameDir ==
    /\ pc = "renaming"
    /\ FilesLoopOver(cur)
    /\ \E dir_name \in cur.dirs :
          LET dir_path == cur.root \o <<dir_name>>
              new_path == cur.root \o <<NewName(dir_name)>>
          IN  /\ cur' = [cur EXCEPT !.dirs = @ \ {dir_name}]
              /\ IF dir_path # new_path
                 THEN /\ out' = out \cup {<<"Renaming directory", dir_path, new_path>>}
                      /\ IF DirMoveAllowed(fs, new_path)
                         THEN Move(dir_path, new_path)
                         ELSE UNCHANGED <<fs, done, pc>>
                 ELSE UNCHANGED <<out, fs, done, pc>>
    /\ UNCHANGED <<argv, env, args, repl, fs0, todo, stack>>
    /\ UNCHANGED textVars

\* os.walk is exhausted: rename_files_and_dirs returns
EndRename ==
    /\ pc = "renaming"
    /\ CurDone
    /\ stack = <<>>
    /\ pc' = AfterStage("step2")
    /\ UNCHANGED <<argv, env, args, repl, fs, fs0, todo, stack, cur, out, done>>
    /\ UNCHANGED textVars

\* Step 3: if script_path.exists(): os.remove(script_path)
RemoveScript ==
    /\ pc = "step3"
    /\ IF Exists(fs, script_path)
       THEN /\ fs' = Remove(fs, script_path)
            /\ out' = out \cup {<<"Step 3">>}
            /\ done' = done \cup {<<"remove", script_path>>}
       ELSE UNCHANGED <<fs, out, done>>
    /\ pc' = AfterStage("step3")
    /\ UNCHANGED <<argv, env, args, repl, fs0, todo, stack, cur>>
    /\ UNCHANGED textVars

\* Step 4: if not os.path.exists(".git")
GitCheck ==
    /\ pc = "step4"
    /\ IF ~Exists(fs, <<N_git>>)
       THEN /\ pc' = "git_init"
            /\ out' = out \cup {<<"Step 4">>}
       ELSE /\ pc' = AfterStage("step4")
            /\ UNCHANGED out
    /\ UNCHANGED <<argv, env, args, repl, fs, fs0, todo, stack, cur, done>>
    /\ UNCHANGED textVars

\* subprocess.run without check=True
NeverRaises(ok) == FALSE

\* subprocess.run(..., check=True) raises CalledProcessError on failure
CheckRaises(ok) == ~ok

\* what a git command that succeeds changes: only entries under .git
GitEffect(f, cmd) ==
    CASE cmd = "git_init"   -> (<<N_git>> :> Dir) @@ f
      [] cmd = "git_add"    -> (<<N_git, N_index>> :> File(<<>>, "binary")) @@ f
      [] cmd = "git_commit" -> f

GitAfter(cmd) ==
    CASE cmd = "git_init"   -> "git_add"
      [] cmd = "git_add"    -> "git_commit"
      [] cmd = "git_commit" -> AfterStage("step4")

\* one of git init, git add ., git commit: it succeeds or it fails
GitRun ==
    /\ pc \in {"git_init", "git_add", "git_commit"}
    /\ \E ok \in BOOLEAN :
          /\ fs' = IF ok THEN GitEffect(fs, pc) ELSE fs
          /\ done' = done \cup {IF ok THEN <<"git", <<pc>>>> ELSE <<"git_failed", <<pc>>>>}
          /\ pc' = IF CheckRaises(ok) THEN "git_failed" ELSE GitAfter(pc)
    /\ UNCHANGED <<argv, env, args, repl, fs0, todo, stack, cur, out>>
    /\ UNCHANGED textVars

\* print("Template initialization complete!")
Complete ==
    /\ pc = "complete"
    /\ pc' = "exit_ok"
    /\ out' = out \cup {<<"Template initialization complete!">>}
    /\ UNCHANGED <<argv, env, args, repl, fs, fs0, todo, stack, cur, done>>
    /\ UNCHANGED textVars

Next ==
    \/ ParseArgs
    \/ Confirm
    \/ StartRewrite
    \/ ReplaceInFile
    \/ EndRewrite
    \/ StartRename
    \/ WalkDescend
    \/ WalkYield
    \/ RenameFile
    \/ RenameDir
    \/ EndRename
    \/ RemoveScript
    \/ GitCheck
    \/ GitRun
    \/ Complete

Spec == Init /\ [][Next]_vars

----------------------------------------------------------------------------
(* Claims about a run (Spec) *)

Kinds(kind) == {e \in done : e[1] = kind}

BeforeMutation == pc \in {"parse", "confirm", "exit_usage", "interrupted"}

AfterRename ==
    pc \in {"step3", "step4", "git_init", "git_add", "git_commit",
            "git_failed", "complete", "exit_ok"}

GitStage == pc \in {"step4", "git_init", "git_add", "git_commit"}

\* the tree without the version-control directory .git
NonGit(f) == [p \in {q \in DOMAIN f : N_git \notin Parts(q)} |-> f[p]]

\* C1: once the rename pass is over, no placeholder token is left in the
\* contents of a text file the content rewriter processes, nor in the name
\* of any file or directory under the working directory.
C1_NoTokenLeft ==
    AfterRename =>
        \A p \in DOMAIN fs :
            /\ (Eligible(fs, p) /\ fs[p].mode = "text") => ~HasToken(fs[p].data)
            /\ p # <<>> => ~HasToken(Base(p))

\* the depth of the nested directories of the initial tree
Depth == CHOOSE n \in 1..(MaxDepth + 1) :
            ChainPath(n) \in DOMAIN fs0 /\ ChainPath(n + 1) \notin DOMAIN fs0

\* the moves that rename the nested entries, each from the path it has while
\* its ancestors still carry their old names
ChainMoves ==
    {<<"move", ChainPath(i), Parent(ChainPath(i)) \o <<NewName(LevelName(i))>>>> :
        i \in 1..Depth}
    \cup {<<"move", ChainFile(Depth), ChainPath(Depth) \o <<NewName(ChainFileName)>>>>}

ChainRenamed ==
    /\ \A i \in 1..Depth : IsDir(fs, [j \in 1..i |-> NewName(LevelName(j))])
    /\ IsFile(fs, [j \in 1..Depth |-> NewName(LevelName(j))]
                     \o <<NewName(ChainFileName)>>)
    /\ \A i \in 1..Depth : ~Exists(fs, ChainPath(i))
    /\ {e \in Kinds("move") : e[2][1] = LevelName(1)} = ChainMoves

C3_States ==
    /\ \A d \in cur.alldirs : <<"visit", cur.root \o <<d>>>> \in done
    /\ Kinds("missing") = {}
    /\ (AfterRename /\ ~Exists(fs0, <<NewName(LevelName(1))>>)) => ChainRenamed

C3_Steps ==
    (cur'.root = cur.root /\ cur.dirs # {} /\ cur'.dirs # cur.dirs)
        => cur.files = {}

\* C3: a directory is yielded only after all its sub-directories were, within
\* one directory the files are renamed before the sub-directories, no move
\* is attempted on a source that is gone, and the nested tree
\* outer-${x}/inner-${x}/file-${x} ends as outer-X/inner-X/file-X with each
\* entry moved exactly once.
C3_PostOrder == [](C3_States) /\ [][C3_Steps]_vars

\* C3 witness: a nested tree of two levels or more, renamed
C3_Witness ==
    /\ AfterRename
    /\ Depth >= 2
    /\ ChainRenamed

\* C5: nothing under the working directory changes before the arguments
\* have parsed and the user has confirmed; a missing --name ends the run in
\* the usage error, an interrupt at the prompt ends it there, both with the
\* tree as it was.
C5_NoMutationBeforeConfirm ==
    /\ (BeforeMutation \/ UsageError(argv) \/ <<"interrupt">> \in done)
          => (fs = fs0 /\ Kinds("write") \cup Kinds("move") \cup Kinds("remove")
                              \cup Kinds("git") = {})
    /\ (UsageError(argv) /\ pc # "parse") => pc = "exit_usage"
    /\ <<"interrupt">> \in done => pc = "interrupted"

\* C5 witness: the user interrupted at the prompt
C5_Witness ==
    /\ pc = "interrupted"
    /\ <<"interrupt">> \in done
    /\ \E p \in DOMAIN fs : Eligible(fs, p) /\ HasToken(fs[p].data)

Rank(e) ==
    CASE e[1] = "write"  -> 1
      [] e[1] = "move"   -> 2
      [] e[1] = "remove" -> 3
      [] e[1] = "git"    -> 4
      [] OTHER           -> 0

Ranked(S) == {e \in S : Rank(e) > 0}

C7_Steps ==
    \A e \in Ranked(done' \ done) : \A o \in Ranked(done) : Rank(o) <= Rank(e)

\* C7: the stages do not overlap: every content write comes before the
\* first move, every move before the removal of the script, and the removal
\* before the git commands.
C7_StagesInOrder == [][C7_Steps]_vars

\* C7 witness: a run that wrote, moved, removed the script and ran git
C7_Witness ==
    /\ pc = "exit_ok"
    /\ \A kind \in {"write", "move", "remove", "git"} : Kinds(kind) # {}

Excluded(p) ==
    N_git \in Parts(p) \/ N_github \in Parts(p) \/ p = script_path

C8_FrameExcluded ==
    /\ \A e \in Kinds("write") : ~Excluded(e[2])
    /\ pc \in {"rewriting", "step2"} =>
          \A p \in DOMAIN fs0 : (IsFile(fs0, p) /\ Excluded(p)) => fs[p] = fs0[p]

C9_States ==
    /\ Kinds("git_failed") # {} =>
          /\ pc = "git_failed"
          /\ <<"Template initialization complete!">> \notin out
    /\ Kinds("git") \cup Kinds("git_failed") # {} => ~Exists(fs0, <<N_git>>)

C9_Steps ==
    /\ GitStage => NonGit(fs') = NonGit(fs)
    /\ (pc = "step4" /\ pc' = "git_init") => ~Exists(fs, <<N_git>>)

\* C9: the git commands run only when there is no .git; when one of them
\* fails the run ends there, in failure and without the completion message,
\* and nothing outside .git changes from step 4 on: the rewrites and renames
\* made stay as they are.
C9_NotTransactional == [](C9_States) /\ [][C9_Steps]_vars

\* C9 witness: a git command failed after contents were rewritten and
\* entries renamed, and these changes are still there
C9_Witness ==
    /\ pc = "git_failed"
    /\ Kinds("write") # {}
    /\ Kinds("move") # {}
    /\ \A e \in Kinds("move") : Exists(fs, e[3]) \/ \E o \in Kinds("move") : IsPrefix(o[2], e[3])
    /\ NonGit(fs) # NonGit(fs0)

\* a step of the loop over dirs on a name the replacements change
DirStep(d) ==
    /\ pc = "renaming"
    /\ cur'.root = cur.root
    /\ d \in cur.dirs
    /\ cur'.dirs = cur.dirs \ {d}
    /\ NewName(d) # d

\* a step of the loop over files on a name the replacements change
FileStep(n) ==
    /\ pc = "renaming"
    /\ cur'.root = cur.root
    /\ n \in cur.files
    /\ cur'.files = cur.files \ {n}
    /\ NewName(n) # n

C10_Steps ==
    /\ \A d \in cur.dirs :
          (DirStep(d) /\ Exists(fs, cur.root \o <<NewName(d)>>)) =>
              /\ fs' = fs
              /\ pc' = pc
              /\ Kinds("raise") \cup Kinds("missing") = {}
    /\ \A n \in cur.files :
          FileStep(n) =>
              \/ /\ ~Exists(fs', cur.root \o <<n>>)
                 /\ \E e \in (done' \ done) : e[1] = "move" /\ e[2] = cur.root \o <<n>>
              \/ pc' = "crashed"

\* C10: a directory whose new name is taken is not moved: it and the entry
\* of that name stay as they are, and nothing is raised; a file is moved
\* whether or not its new name is taken.
C10_CollisionPolicy == [][C10_Steps]_vars

\* C10 witness: a directory kept its placeholder name because its new name
\* was taken, and a file was moved onto an existing file
C10_Witness ==
    /\ AfterRename
    /\ IsDir(fs, <<LevelName(1)>>)
    /\ Exists(fs0, <<NewName(LevelName(1))>>)
    /\ <<"Renaming directory", <<LevelName(1)>>, <<NewName(LevelName(1))>>>> \in out
    /\ IsFile(fs0, <<TakenFileName>>)
    /\ <<"move", <<RootFileName>>, <<TakenFileName>>>> \in done

----------------------------------------------------------------------------
(* Claims about the rewriting of one text (SpecText) *)

RECURSIVE SimultaneousFrom(_, _, _)
SimultaneousFrom(s, r, i) ==
    IF i > Len(s) THEN <<>>
    ELSE IF \E j \in 1..Len(r) : StartsAt(s, r[j][1], i)
         THEN LET j == CHOOSE j \in 1..Len(r) : StartsAt(s, r[j][1], i)
              IN  r[j][2] \o SimultaneousFrom(s, r, i + Len(r[j][1]))
         ELSE <<s[i]>> \o SimultaneousFrom(s, r, i + 1)

\* One pass over the original text: each token occurrence gives way to its
\* value, and no inserted value is looked at again.
Simultaneous(s, r) == SimultaneousFrom(s, r, 1)

\* A value no token occurrence can touch: a token can neither start in it
\* (no "$"), nor end in it (no "}"), nor contain it whole.
Inert(v) ==
    /\ ~Contains(v, <<"$">>)
    /\ ~Contains(v, <<"}">>)
    /\ \A j \in 1..Len(Keys) : ~Contains(Keys[j], v)

AllInert(r) == \A j \in 1..Len(r) : Inert(r[j][2])

\* C2: what the first rewrite writes is the one-pass, simultaneous
\* substitution of the original text: a placeholder-shaped substring of a
\* supplied value comes out unchanged and is not substituted by a later key.
C2_LiteralNonRecursive ==
    pass # "first" => first = Simultaneous(orig, repl)

\* C4 as stated: a second rewrite of an already rewritten text, with the same
\* mapping, changes nothing.
C4_Idempotent ==
    pass = "done" => buf = first

\* C4 amended: the second rewrite changes nothing when every value of the
\* mapping is inert (holds no "$" and no "}" and is no substring of a token,
\* which excludes the empty value).
C4_IdempotentInert ==
    (pass = "done" /\ AllInert(repl)) => buf = first

\* C4 witness: inert values, a text with tokens rewritten twice
C4_Witness ==
    /\ pass = "done"
    /\ AllInert(repl)
    /\ HasToken(orig)
    /\ first # orig
    /\ buf = first

====
